---- MODULE Spec2Model ----
(***************************************************************************)
(* Array execution of a function over indexed array elements               *)
(* (source/blender/functions/functions/array_execution.cpp).               *)
(*                                                                         *)
(* Two strategies execute the same function descriptor over a sequence of  *)
(* indices: TupleCallArrayExecution (one boxed body call per index) and    *)
(* LLVMArrayExecution (one generated native loop).  The model follows a    *)
(* 64-bit build with assertions enabled: `uint` is 32 bits wide, pointers  *)
(* are wider, a failing BLI_assert aborts the process.                     *)
(***************************************************************************)
EXTENDS Integers, Sequences, FiniteSets, TLC

(***************************************************************************)
(* Bounds of the model.                                                    *)
(***************************************************************************)
\* the small element indices are 0..MaxIndex
MaxIndex == 1
\* the indices passed to one strategy object between two (re)initialisations
\* of its output buffers: at most MaxTotal of them, in at most MaxCalls calls
MaxTotal == 2
MaxCalls == 2
\* the input buffers' contents are drawn from 0..MaxBase patterns
MaxBase == 1
\* the arrays an ArrayRef refers to have at most MaxLen elements
MaxLen == 3

(***************************************************************************)
(* 32-bit unsigned arithmetic.  A byte offset is kept as a pair of 16-bit   *)
(* limbs <<hi, lo>> standing for hi * 2^16 + lo, so that the exact product  *)
(* and the product as `uint` computes it are both representable.           *)
(***************************************************************************)
UintBits == 32
Limb == 2 ^ (UintBits \div 2)

\* index * size as a mathematical product (what pointer-width arithmetic gives)
ExactMul(index, size) ==
  LET ih == index \div Limb
      il == index % Limb
      p  == il * size
  IN  <<ih * size + (p \div Limb), p % Limb>>

\* index * size computed in `uint`: the product modulo 2^UintBits
UintMul(index, size) ==
  LET e == ExactMul(index, size)
  IN  <<e[1] % Limb, e[2]>>

\* the smallest index whose offset in an array of 8-byte elements needs 33 bits
BigIndex == 2 ^ (UintBits - 3)

Indices == (0 .. MaxIndex) \cup {BigIndex}

(***************************************************************************)
(* Function descriptors.  A type is known here by the byte size its        *)
(* CPPTypeInfo extension reports; a function has ordered input and output  *)
(* types and a set of bodies.                                              *)
(***************************************************************************)
Type4 == [size |-> 4]
Type8 == [size |-> 8]

BodyKinds == {"TupleCallBody", "LLVMBuildIRBody"}

Shapes ==
  { [name |-> "double", input_types |-> <<Type4>>,        output_types |-> <<Type4>>],
    [name |-> "add",    input_types |-> <<Type4, Type4>>, output_types |-> <<Type4>>],
    [name |-> "split",  input_types |-> <<Type4>>,        output_types |-> <<Type8, Type4>>] }

Functions ==
  { [name |-> s.name, input_types |-> s.input_types, output_types |-> s.output_types,
     bodies |-> b] : s \in Shapes, b \in (SUBSET BodyKinds) \ {{}} }

input_amount(f) == Len(f.input_types)
output_amount(f) == Len(f.output_types)
has_body(f, kind) == kind \in f.bodies

\* the function the bodies of a descriptor compute: outputs from inputs
BodyResult(f, ins) ==
  CASE f.name = "double" -> <<2 * ins[1]>>
    [] f.name = "add"    -> <<ins[1] + ins[2]>>
    [] f.name = "split"  -> <<ins[1], ins[1] + 1>>

(***************************************************************************)
(* Memory.  A buffer is an array of elements of one size; the model tracks *)
(* the elements at the indices of Indices, each under its byte offset.     *)
(* A pointer is a buffer handle and a byte offset into it.                 *)
(***************************************************************************)
Objs == {1, 2}

InBuffer(k) == [kind |-> "in", obj |-> 0, slot |-> k]
OutBuffer(o, k) == [kind |-> "out", obj |-> o, slot |-> k]

Offsets(size) == { ExactMul(i, size) : i \in Indices }
IndexAt(size, off) == CHOOSE i \in Indices : ExactMul(i, size) = off
Rank(i) == IF i <= MaxIndex THEN i ELSE MaxIndex + 1

\* the element of input slot k at index i holds a value of its own
InputValue(base, k, i) == 10 * k + base + 2 * Rank(i)
\* every output element starts as a guard value no body produces
GuardValue(i) == -(1 + Rank(i))

InitInput(base, k, size) ==
  [off \in Offsets(size) |-> InputValue(base, k, IndexAt(size, off))]
InitOutput(size) ==
  [off \in Offsets(size) |-> GuardValue(IndexAt(size, off))]

BufferSet(f) ==
  { InBuffer(k) : k \in 1 .. input_amount(f) } \cup
  { OutBuffer(o, k) : o \in Objs, k \in 1 .. output_amount(f) }

InitMem(f, base) ==
  [b \in BufferSet(f) |->
     IF b.kind = "in" THEN InitInput(base, b.slot, f.input_types[b.slot].size)
                      ELSE InitOutput(f.output_types[b.slot].size)]

POINTER_OFFSET(buffer, ofs) == [buf |-> buffer, off |-> ofs]
\* a pointer that is none of the callers' buffers, and whether an address lies
\* in the memory the model tracks
WildBuffer == [kind |-> "wild", obj |-> 0, slot |-> 0]
Mapped(m, ptr) == ptr.buf \in DOMAIN m /\ ptr.off \in DOMAIN m[ptr.buf]

Load(m, ptr) == m[ptr.buf][ptr.off]
\* a store outside the tracked memory leaves the tracked memory as it is
Store(m, ptr, v) == IF Mapped(m, ptr) THEN [m EXCEPT ![ptr.buf][ptr.off] = v] ELSE m
\* what a read of memory nobody initialised may give
GarbageValues == {0, GuardValue(0)}

(***************************************************************************)
(* State.                                                                  *)
(***************************************************************************)
VARIABLES
  fn,        \* the function descriptor every strategy object is built from
  base,      \* which contents the input buffers were given
  mem,       \* the callers' input and output buffers
  strategy,  \* the strategy objects (ArrayExecution instances)
  call,      \* the execute call in progress, or NoCall
  llvm,      \* the global JIT context: acquisitions, releases, modules created
  hist,      \* per object: the index sequences executed on its output buffers
  prev,      \* the outcome of the latest single call on fresh output buffers
  parked,    \* the execute call of a thread that is not running now, or NoCall
  ref        \* an ArrayRef and the outcome of the latest operation on it

vars == <<fn, base, mem, strategy, call, llvm, hist, prev, parked, ref>>

NoObject ==
  [state |-> "none", kind |-> "none", m_input_sizes |-> <<>>, m_output_sizes |-> <<>>,
   m_compiled_function |-> "null"]
NoCall == [pc |-> "none"]
\* nothing kept yet: no outcome of a first call, no failed call, no call at all
NoPrev == [obj |-> 0, indices |-> <<>>, out |-> <<>>, failed |-> FALSE, last |-> "none"]
NoRef == [op |-> "none"]
EmptySlot == [init |-> FALSE, value |-> 0]
FullSlot(v) == [init |-> TRUE, value |-> v]

Aborted == \E o \in Objs : strategy[o].state = "aborted"
\* the caller is between two operations: no constructor and no call is running
Idle ==
  /\ call = NoCall
  /\ \A o \in Objs : strategy[o].state \in {"none", "ready", "ctor_failed"}

Init ==
  /\ fn \in Functions
  /\ base \in 0 .. MaxBase
  /\ mem = InitMem(fn, base)
  /\ strategy = [o \in Objs |-> NoObject]
  /\ call = NoCall
  /\ llvm = [acquired |-> 0, released |-> 0, modules |-> 0]
  /\ hist = [o \in Objs |-> <<>>]
  /\ prev = NoPrev
  /\ parked = NoCall
  /\ ref = NoRef

(***************************************************************************)
(* Construction.                                                           *)
(***************************************************************************)
\* as SizeTable, with the size of the first type in every entry
SizeTable_FirstSize(types) == [k \in 1 .. Len(types) |-> types[1].size]

\* ArrayExecution::ArrayExecution: the size tables, one entry per type
SizeTable(types) == [k \in 1 .. Len(types) |-> types[k].size]

ArrayExecutionCtor(o, kind) ==
  /\ Idle
  /\ strategy[o].state = "none"
  /\ strategy' = [strategy EXCEPT ![o] =
       [state |-> "base", kind |-> kind,
        m_input_sizes |-> SizeTable(fn.input_types),
        m_output_sizes |-> SizeTable(fn.output_types),
        m_compiled_function |-> "null"]]
  /\ UNCHANGED <<fn, base, mem, call, llvm, hist, prev, parked, ref>>

\* TupleCallArrayExecution::TupleCallArrayExecution: the body of the constructor
TupleCallCtor(o) ==
  /\ strategy[o].state = "base"
  /\ strategy[o].kind = "tuple"
  /\ strategy' = [strategy EXCEPT ![o].state =
       IF has_body(fn, "TupleCallBody") THEN "ready" ELSE "aborted"]
  /\ UNCHANGED <<fn, base, mem, call, llvm, hist, prev, parked, ref>>

\* as LLVMCtorFirst, without the assertion on the body
LLVMCtorFirst_Unchecked(o) == "compile"

\* LLVMArrayExecution::LLVMArrayExecution: what the constructor does first
LLVMCtorFirst(o) ==
  IF has_body(fn, "LLVMBuildIRBody") THEN "compile" ELSE "aborted"

LLVMCtor(o) ==
  /\ strategy[o].state = "base"
  /\ strategy[o].kind = "llvm"
  /\ strategy' = [strategy EXCEPT ![o].state = LLVMCtorFirst(o)]
  /\ UNCHANGED <<fn, base, mem, call, llvm, hist, prev, parked, ref>>

\* as compile, with a compiled function that is never stored
compile_NoHandle(o) ==
  /\ strategy[o].state \in {"compile"}
  /\ llvm' = [acquired |-> llvm.acquired + 1, released |-> llvm.released + 1,
              modules |-> llvm.modules + 1]
  /\ strategy' = [strategy EXCEPT ![o].state = "ready"]
  /\ UNCHANGED <<fn, base, mem, call, hist, prev, parked, ref>>

\* LLVMArrayExecution::compile when build_function_ir or CompiledLLVM::FromIR
\* fails: the failure leaves compile and the constructor, lines 113-114 are
\* not reached or not completed, no object comes into being
compile_fails(o) ==
  /\ strategy[o].state \in {"compile"}
  /\ llvm' = [llvm EXCEPT !.acquired = @ + 1, !.modules = @ + 1]
  /\ strategy' = [strategy EXCEPT ![o].state = "ctor_failed"]
  /\ UNCHANGED <<fn, base, mem, call, hist, prev, parked, ref>>

\* LLVMArrayExecution::compile, called last by the constructor
compile(o) ==
  /\ strategy[o].state \in {"compile"}
  /\ llvm' = [acquired |-> llvm.acquired + 1, released |-> llvm.released + 1,
              modules |-> llvm.modules + 1]
  /\ strategy' = [strategy EXCEPT ![o].state = "ready",
                                  ![o].m_compiled_function = fn.name]
  /\ UNCHANGED <<fn, base, mem, call, hist, prev, parked, ref>>

(***************************************************************************)
(* execute: what the caller passes.                                        *)
(***************************************************************************)
\* the number of indices in a sequence of index sequences
RECURSIVE TotalLen(_)
TotalLen(h) == IF h = <<>> THEN 0 ELSE Len(Head(h)) + TotalLen(Tail(h))

IndexSeqs == UNION { [1 .. n -> Indices] : n \in 0 .. MaxTotal }

\* the caller may start a call with `indices` on the buffers of object o
MayCall(o, indices) ==
  /\ Idle
  /\ strategy[o].state = "ready"
  /\ Len(hist[o]) < MaxCalls
  /\ TotalLen(hist[o]) + Len(indices) <= MaxTotal

input_buffers_of(o) == [k \in 1 .. input_amount(fn) |-> InBuffer(k)]
output_buffers_of(o) == [k \in 1 .. output_amount(fn) |-> OutBuffer(o, k)]

NewCall(o, indices, pc) ==
  [obj |-> o, indices |-> indices,
   input_buffers |-> input_buffers_of(o), output_buffers |-> output_buffers_of(o),
   execution_context |-> "context",
   pc |-> pc, pos |-> 1, i |-> 1,
   fn_in |-> [k \in 1 .. input_amount(fn) |-> EmptySlot],
   fn_out |-> [k \in 1 .. output_amount(fn) |-> EmptySlot],
   size |-> 0, indices_arg |-> <<>>, input_buffers_arg |-> <<>>,
   output_buffers_arg |-> <<>>, context_ptr |-> "null",
   typed_input_buffers |-> <<>>, typed_output_buffers |-> <<>>,
   iteration |-> 0, index_to_process |-> 0,
   input_values |-> <<>>, result |-> <<>>,
   native_calls |-> 0, tuples_allocated |-> 0, contexts |-> <<>>,
   processed |-> <<>>, before |-> mem]

\* the buffer arrays a caller may pass for `buffers`: the array itself, the
\* array without its last buffer, the array with one buffer more
ArgLists(buffers) ==
  {buffers, SubSeq(buffers, 1, Len(buffers) - 1), Append(buffers, buffers[1])}

(***************************************************************************)
(* TupleCallArrayExecution::call.                                          *)
(***************************************************************************)
\* line 50: the address an input is copied from
TupleInputPtr(c, i, index) ==
  POINTER_OFFSET(c.input_buffers[i], UintMul(index, strategy[c.obj].m_input_sizes[i]))

\* line 57: the address an output is relocated to
TupleOutputPtr(c, i, index) ==
  POINTER_OFFSET(c.output_buffers[i], UintMul(index, strategy[c.obj].m_output_sizes[i]))

\* Tuple::copy_in__dynamic: the slot takes a copy, the source keeps its value
copy_in__dynamic(m, tuple, i, ptr) ==
  [tuple |-> [tuple EXCEPT ![i] = FullSlot(Load(m, ptr))], mem |-> m]

\* Tuple::relocate_out__dynamic: the value moves to ptr, the slot is left empty
relocate_out__dynamic(m, tuple, i, ptr) ==
  [tuple |-> [tuple EXCEPT ![i] = EmptySlot], mem |-> Store(m, ptr, tuple[i].value)]

\* TupleCallBody::call: every output slot is filled from the input slots
TupleBodyCall(f, tuple_in, tuple_out) ==
  LET r == BodyResult(f, [k \in DOMAIN tuple_in |-> tuple_in[k].value])
  IN  [k \in DOMAIN tuple_out |-> FullSlot(r[k])]

\* as TupleLoopBegin, with a cursor an earlier call on the object left behind
TupleLoopBegin_Stale(o) == IF prev.obj = o THEN 2 ELSE 1

\* the position the loop over `indices` starts at
TupleLoopBegin(o) == 1

\* lines 34-46: entry of call; the two assertions on the numbers of buffers,
\* then the two tuples are allocated
TupleCallWith(o, indices, input_buffers, output_buffers) ==
  /\ MayCall(o, indices)
  /\ strategy[o].kind = "tuple"
  /\ IF /\ input_amount(fn) = Len(input_buffers)
        /\ output_amount(fn) = Len(output_buffers)
     THEN /\ call' = [NewCall(o, indices, "loop") EXCEPT
                        !.input_buffers = input_buffers,
                        !.output_buffers = output_buffers,
                        !.tuples_allocated = 1,
                        !.pos = TupleLoopBegin(o)]
          /\ UNCHANGED strategy
     ELSE /\ strategy' = [strategy EXCEPT ![o].state = "aborted"]
          /\ UNCHANGED call
  /\ UNCHANGED <<fn, base, mem, llvm, hist, prev, parked, ref>>

\* the call of a caller that passes one buffer per input and per output
TupleCallEntry(o, indices) ==
  TupleCallWith(o, indices, input_buffers_of(o), output_buffers_of(o))

\* as TupleLoopHead, with the loop's test made after its first round
TupleLoopHead_TestAfter ==
  /\ call.pc = "loop"
  /\ strategy[call.obj].kind = "tuple"
  /\ call' = [call EXCEPT
       !.pc = IF call.pos > Len(call.indices) /\ call.pos > 1 THEN "returned"
              ELSE IF input_amount(fn) = 0 THEN "call" ELSE "copy_in",
       !.i = 1]
  /\ UNCHANGED <<fn, base, mem, strategy, llvm, hist, prev, parked, ref>>

\* as TupleLoopHead, with a test that never lets the loop end
TupleLoopHead_NoExit ==
  /\ call.pc = "loop"
  /\ strategy[call.obj].kind = "tuple"
  /\ call' = [call EXCEPT
       !.pc = IF call.pos > Len(call.indices) THEN "loop"
              ELSE IF input_amount(fn) = 0 THEN "call" ELSE "copy_in",
       !.i = 1]
  /\ UNCHANGED <<fn, base, mem, strategy, llvm, hist, prev, parked, ref>>

\* as TupleLoopHead, with the two tuples allocated anew in every round
TupleLoopHead_Allocating ==
  /\ call.pc = "loop"
  /\ strategy[call.obj].kind = "tuple"
  /\ call' = [call EXCEPT
       !.pc = IF call.pos > Len(call.indices) THEN "returned"
              ELSE IF input_amount(fn) = 0 THEN "call" ELSE "copy_in",
       !.tuples_allocated = IF call.pos > Len(call.indices) THEN @ ELSE @ + 1,
       !.i = 1]
  /\ UNCHANGED <<fn, base, mem, strategy, llvm, hist, prev, parked, ref>>

\* line 48: the head of the loop over the indices
TupleLoopHead ==
  /\ call.pc = "loop"
  /\ strategy[call.obj].kind = "tuple"
  /\ call' = [call EXCEPT
       !.pc = IF call.pos > Len(call.indices) THEN "returned"
              ELSE IF input_amount(fn) = 0 THEN "call" ELSE "copy_in",
       !.i = 1]
  /\ UNCHANGED <<fn, base, mem, strategy, llvm, hist, prev, parked, ref>>

\* as TupleCopyIn, with the input moved out of the buffer instead of copied
TupleCopyIn_Relocating ==
  /\ call.pc = "copy_in"
  /\ LET index == call.indices[call.pos]
         ptr == TupleInputPtr(call, call.i, index)
     IN  /\ mem' = Store(mem, ptr, 0)
         /\ call' = [call EXCEPT
              !.fn_in = [call.fn_in EXCEPT ![call.i] = FullSlot(Load(mem, ptr))],
              !.i = IF call.i = input_amount(fn) THEN 1 ELSE call.i + 1,
              !.pc = IF call.i = input_amount(fn) THEN "call" ELSE "copy_in"]
  /\ UNCHANGED <<fn, base, strategy, llvm, hist, prev, parked, ref>>

\* as TupleCopyIn, going on to the outputs without the call of the body
TupleCopyIn_ThenStore ==
  /\ call.pc = "copy_in"
  /\ LET index == call.indices[call.pos]
         r == copy_in__dynamic(mem, call.fn_in, call.i,
                               TupleInputPtr(call, call.i, index))
     IN  /\ mem' = r.mem
         /\ call' = [call EXCEPT
              !.fn_in = r.tuple,
              !.i = IF call.i = input_amount(fn) THEN 1 ELSE call.i + 1,
              !.pc = IF call.i = input_amount(fn) THEN "relocate_out" ELSE "copy_in"]
  /\ UNCHANGED <<fn, base, strategy, llvm, hist, prev, parked, ref>>

\* lines 49-52: one round of the loop over the inputs
TupleCopyIn ==
  /\ call.pc = "copy_in"
  /\ LET index == call.indices[call.pos]
         r == copy_in__dynamic(mem, call.fn_in, call.i,
                               TupleInputPtr(call, call.i, index))
     IN  /\ mem' = r.mem
         /\ call' = [call EXCEPT
              !.fn_in = r.tuple,
              !.i = IF call.i = input_amount(fn) THEN 1 ELSE call.i + 1,
              !.pc = IF call.i = input_amount(fn) THEN "call" ELSE "copy_in"]
  /\ UNCHANGED <<fn, base, strategy, llvm, hist, prev, parked, ref>>

\* as TupleCall, with a context of the strategy's own instead of the caller's
TupleCall_OwnContext ==
  /\ call.pc = "call"
  /\ call' = [call EXCEPT
       !.fn_out = TupleBodyCall(fn, call.fn_in, call.fn_out),
       !.processed = Append(call.processed, call.indices[call.pos]),
       !.contexts = Append(call.contexts, "own context"),
       !.i = 1,
       !.pc = IF output_amount(fn) = 0 THEN "next" ELSE "relocate_out"]
  /\ UNCHANGED <<fn, base, mem, strategy, llvm, hist, prev, parked, ref>>

\* line 54: the body is called with the two tuples and the context
TupleCall ==
  /\ call.pc = "call"
  /\ call' = [call EXCEPT
       !.fn_out = TupleBodyCall(fn, call.fn_in, call.fn_out),
       !.processed = Append(call.processed, call.indices[call.pos]),
       !.contexts = Append(call.contexts, call.execution_context),
       !.i = 1,
       !.pc = IF output_amount(fn) = 0 THEN "next" ELSE "relocate_out"]
  /\ UNCHANGED <<fn, base, mem, strategy, llvm, hist, prev, parked, ref>>

\* as TupleCallFails, with the outputs of the earlier positions taken back
TupleCallFails_Rollback ==
  /\ call.pc = "call"
  /\ mem' = call.before
  /\ call' = [call EXCEPT
       !.processed = Append(call.processed, call.indices[call.pos]),
       !.contexts = Append(call.contexts, call.execution_context),
       !.pc = "failed"]
  /\ UNCHANGED <<fn, base, strategy, llvm, hist, prev, parked, ref>>

\* line 54 when the body fails: the failure leaves call at once, nothing in
\* call catches it and no line after the body call runs
TupleCallFails ==
  /\ call.pc = "call"
  /\ call' = [call EXCEPT
       !.processed = Append(call.processed, call.indices[call.pos]),
       !.contexts = Append(call.contexts, call.execution_context),
       !.pc = "failed"]
  /\ UNCHANGED <<fn, base, mem, strategy, llvm, hist, prev, parked, ref>>

\* as TupleRelocateOut, with the value copied out and kept in the tuple
TupleRelocateOut_Keeping ==
  /\ call.pc = "relocate_out"
  /\ LET index == call.indices[call.pos]
         r == relocate_out__dynamic(mem, call.fn_out, call.i,
                                    TupleOutputPtr(call, call.i, index))
     IN  /\ mem' = r.mem
         /\ call' = [call EXCEPT
              !.i = IF call.i = output_amount(fn) THEN 1 ELSE call.i + 1,
              !.pc = IF call.i = output_amount(fn) THEN "next" ELSE "relocate_out"]
  /\ UNCHANGED <<fn, base, strategy, llvm, hist, prev, parked, ref>>

\* lines 56-59: one round of the loop over the outputs
TupleRelocateOut ==
  /\ call.pc = "relocate_out"
  /\ LET index == call.indices[call.pos]
         r == relocate_out__dynamic(mem, call.fn_out, call.i,
                                    TupleOutputPtr(call, call.i, index))
     IN  /\ mem' = r.mem
         /\ call' = [call EXCEPT
              !.fn_out = r.tuple,
              !.i = IF call.i = output_amount(fn) THEN 1 ELSE call.i + 1,
              !.pc = IF call.i = output_amount(fn) THEN "next" ELSE "relocate_out"]
  /\ UNCHANGED <<fn, base, strategy, llvm, hist, prev, parked, ref>>

\* as TupleLoopNext, stepping over the index that follows
TupleLoopNext_Skipping ==
  /\ call.pc = "next"
  /\ strategy[call.obj].kind = "tuple"
  /\ call' = [call EXCEPT !.pos = call.pos + 2, !.pc = "loop"]
  /\ UNCHANGED <<fn, base, mem, strategy, llvm, hist, prev, parked, ref>>

\* as TupleLoopNext, with every position processed a second time
TupleLoopNext_Repeating ==
  /\ call.pc = "next"
  /\ strategy[call.obj].kind = "tuple"
  /\ call' = [call EXCEPT
       !.pos = IF Len(call.processed) < 2 * call.pos THEN @ ELSE @ + 1,
       !.pc = "loop"]
  /\ UNCHANGED <<fn, base, mem, strategy, llvm, hist, prev, parked, ref>>

\* line 48: the loop goes on to the next index
TupleLoopNext ==
  /\ call.pc = "next"
  /\ strategy[call.obj].kind = "tuple"
  /\ call' = [call EXCEPT !.pos = call.pos + 1, !.pc = "loop"]
  /\ UNCHANGED <<fn, base, mem, strategy, llvm, hist, prev, parked, ref>>

\* lines 48-60 in one piece: the memory a run of the loop over `indices` leaves
RECURSIVE TupleRelocateAll(_, _, _, _, _)
TupleRelocateAll(c, m, index, results, i) ==
  IF i > output_amount(fn) THEN m
  ELSE TupleRelocateAll(c, Store(m, TupleOutputPtr(c, i, index), results[i]),
                        index, results, i + 1)
TupleRound(c, m, index) ==
  TupleRelocateAll(c, m, index,
    BodyResult(fn, [i \in 1 .. input_amount(fn) |-> Load(m, TupleInputPtr(c, i, index))]),
    1)
RECURSIVE TupleRun(_, _, _)
TupleRun(c, indices, m) ==
  IF indices = <<>> THEN m
  ELSE TupleRun(c, Tail(indices), TupleRound(c, m, Head(indices)))

(***************************************************************************)
(* LLVMArrayExecution::call and the function build_function_ir generates.  *)
(***************************************************************************)
\* CastToPointerWithStride and CreateGEP: element `index` of a strided buffer
GEP(buffer, stride, index) == POINTER_OFFSET(buffer, ExactMul(index, stride))

\* LLVMTypeInfo::build_load_ir__copy: the value at addr, which keeps it
build_load_ir__copy(m, addr) == Load(m, addr)

\* LLVMTypeInfo::build_store_ir__relocate: the value is stored at addr
build_store_ir__relocate(m, value, addr) == Store(m, addr, value)

\* the number of rounds of the loop CreateNIterationsLoop builds for `size`
NIterations(size) == size

\* get_input_values: one load per input, at the index to process
get_input_values(c, m, index) ==
  [k \in 1 .. input_amount(fn) |->
     build_load_ir__copy(m, GEP(c.typed_input_buffers[k],
                                strategy[c.obj].m_input_sizes[k], index))]

\* store_output_values: one store per output, at the index to process
RECURSIVE StoreFrom(_, _, _, _, _)
StoreFrom(c, m, index, results, k) ==
  IF k > output_amount(fn) THEN m
  ELSE StoreFrom(c,
         build_store_ir__relocate(m, results[k],
           GEP(c.typed_output_buffers[k], strategy[c.obj].m_output_sizes[k], index)),
         index, results, k + 1)
store_output_values(c, m, index, results) == StoreFrom(c, m, index, results, 1)

\* the addresses the generated function reads and writes in one round
InputAddrs(c, index) ==
  { GEP(c.typed_input_buffers[k], strategy[c.obj].m_input_sizes[k], index) :
      k \in 1 .. input_amount(fn) }
OutputAddrs(c, index) ==
  { GEP(c.typed_output_buffers[k], strategy[c.obj].m_output_sizes[k], index) :
      k \in 1 .. output_amount(fn) }

\* get_input_buffers, get_output_buffers: the generated function loads one
\* buffer pointer per slot from the array it was passed.  A load past the end
\* of the array is undefined: it yields any pointer.
LoadedBuffers(buffers_arg, amount) ==
  { s \in [1 .. amount -> BufferSet(fn) \cup {WildBuffer}] :
      \A k \in 1 .. amount : k <= Len(buffers_arg) => s[k] = buffers_arg[k] }

\* as CompiledFunctionArgs, with the number of indices one too small
CompiledFunctionArgs_Short(indices, input_buffers, output_buffers, execution_context) ==
  [size |-> IF Len(indices) = 0 THEN 0 ELSE Len(indices) - 1, indices |-> indices,
   input_buffers |-> input_buffers,
   output_buffers |-> output_buffers, context_ptr |-> execution_context]

\* lines 100-104: the five arguments the compiled function is called with
CompiledFunctionArgs(indices, input_buffers, output_buffers, execution_context) ==
  [size |-> Len(indices), indices |-> indices, input_buffers |-> input_buffers,
   output_buffers |-> output_buffers, context_ptr |-> execution_context]

\* lines 93-105 and the entry block of the generated function (lines 129-137):
\* the compiled function is called once with the five arguments; nothing is
\* asserted about the numbers of buffers
LLVMCallWith(o, indices, input_buffers, output_buffers) ==
  /\ MayCall(o, indices)
  /\ strategy[o].kind = "llvm"
  /\ LET c == NewCall(o, indices, "llvm_loop")
         a == CompiledFunctionArgs(indices, input_buffers, output_buffers,
                                   c.execution_context)
     IN  IF strategy[o].m_compiled_function = "null"
         THEN call' = [c EXCEPT !.input_buffers = input_buffers,
                                !.output_buffers = output_buffers,
                                !.pc = "crashed"]
         ELSE \E tin \in LoadedBuffers(a.input_buffers, input_amount(fn)) :
              \E tout \in LoadedBuffers(a.output_buffers, output_amount(fn)) :
                call' = [c EXCEPT
                  !.input_buffers = input_buffers,
                  !.output_buffers = output_buffers,
                  !.native_calls = c.native_calls + 1,
                  !.size = a.size,
                  !.indices_arg = a.indices,
                  !.input_buffers_arg = a.input_buffers,
                  !.output_buffers_arg = a.output_buffers,
                  !.context_ptr = a.context_ptr,
                  !.typed_input_buffers = tin,
                  !.typed_output_buffers = tout]
  /\ UNCHANGED <<fn, base, mem, strategy, llvm, hist, prev, parked, ref>>

\* the call of a caller that passes one buffer per input and per output
LLVMCallEntry(o, indices) ==
  LLVMCallWith(o, indices, input_buffers_of(o), output_buffers_of(o))

\* lines 140, 162-163: the head of the generated loop, and the return after it
LLVMLoopHead ==
  /\ call.pc = "llvm_loop"
  /\ call' = [call EXCEPT
       !.pc = IF call.iteration < NIterations(call.size) THEN "llvm_load" ELSE "returned"]
  /\ UNCHANGED <<fn, base, mem, strategy, llvm, hist, prev, parked, ref>>

\* lines 143-148: the index of this round and the inputs at it are loaded
LLVMLoadInputs ==
  /\ call.pc = "llvm_load"
  /\ LET index == call.indices_arg[call.iteration + 1]
     IN  /\ \A addr \in InputAddrs(call, index) : Mapped(mem, addr)
         /\ call' = [call EXCEPT
              !.index_to_process = index,
              !.input_values = get_input_values(call, mem, index),
              !.pc = "llvm_call"]
  /\ UNCHANGED <<fn, base, mem, strategy, llvm, hist, prev, parked, ref>>

\* the same lines when a loaded buffer pointer is not one of the caller's
\* buffers or the element lies outside it: the read is undefined, the process
\* dies or goes on with whatever the read gave
LLVMLoadUnmapped ==
  /\ call.pc = "llvm_load"
  /\ LET index == call.indices_arg[call.iteration + 1]
     IN  /\ \E addr \in InputAddrs(call, index) : ~Mapped(mem, addr)
         /\ \/ call' = [call EXCEPT !.pc = "crashed"]
            \/ \E garbage \in [1 .. input_amount(fn) -> GarbageValues] :
                 call' = [call EXCEPT
                   !.index_to_process = index,
                   !.input_values = [k \in 1 .. input_amount(fn) |->
                      LET addr == GEP(call.typed_input_buffers[k],
                                      strategy[call.obj].m_input_sizes[k], index)
                      IN  IF Mapped(mem, addr) THEN build_load_ir__copy(mem, addr)
                          ELSE garbage[k]],
                   !.pc = "llvm_call"]
  /\ UNCHANGED <<fn, base, mem, strategy, llvm, hist, prev, parked, ref>>

\* as LLVMCallBody, with the function of the body built anew in a module of
\* its own when it is called
LLVMCallBody_Building ==
  /\ call.pc = "llvm_call"
  /\ llvm' = [llvm EXCEPT !.modules = @ + 1]
  /\ call' = [call EXCEPT
       !.result = BodyResult(fn, call.input_values),
       !.processed = Append(call.processed, call.index_to_process),
       !.contexts = Append(call.contexts, call.context_ptr),
       !.pc = "llvm_store"]
  /\ UNCHANGED <<fn, base, mem, strategy, hist, prev, parked, ref>>

\* lines 151-155: the function the body built is called on the loaded values
LLVMCallBody ==
  /\ call.pc = "llvm_call"
  /\ call' = [call EXCEPT
       !.result = BodyResult(fn, call.input_values),
       !.processed = Append(call.processed, call.index_to_process),
       !.contexts = Append(call.contexts, call.context_ptr),
       !.pc = "llvm_store"]
  /\ UNCHANGED <<fn, base, mem, strategy, llvm, hist, prev, parked, ref>>

\* lines 158, 162: the results are stored and the round ends
LLVMStoreOutputs ==
  /\ call.pc = "llvm_store"
  /\ \A addr \in OutputAddrs(call, call.index_to_process) : Mapped(mem, addr)
  /\ mem' = store_output_values(call, mem, call.index_to_process, call.result)
  /\ call' = [call EXCEPT !.iteration = call.iteration + 1, !.pc = "llvm_loop"]
  /\ UNCHANGED <<fn, base, strategy, llvm, hist, prev, parked, ref>>

\* the same lines when a store goes through a pointer that is not one of the
\* caller's buffers: the write is undefined, the process dies or the stores
\* land, those outside the callers' buffers where the model does not look
LLVMStoreUnmapped ==
  /\ call.pc = "llvm_store"
  /\ \E addr \in OutputAddrs(call, call.index_to_process) : ~Mapped(mem, addr)
  /\ \/ /\ call' = [call EXCEPT !.pc = "crashed"]
        /\ UNCHANGED mem
     \/ /\ mem' = store_output_values(call, mem, call.index_to_process, call.result)
        /\ call' = [call EXCEPT !.iteration = call.iteration + 1, !.pc = "llvm_loop"]
  /\ UNCHANGED <<fn, base, strategy, llvm, hist, prev, parked, ref>>

\* the generated function in one piece: the memory a run of its loop leaves
RECURSIVE LLVMRun(_, _, _)
LLVMRun(c, indices, m) ==
  IF indices = <<>> THEN m
  ELSE LLVMRun(c, Tail(indices),
         store_output_values(c, m, Head(indices),
           BodyResult(fn, get_input_values(c, m, Head(indices)))))

(***************************************************************************)
(* The caller.                                                             *)
(***************************************************************************)
\* execute has returned: the caller goes on
CallerResume ==
  /\ call.pc = "returned"
  /\ hist' = [hist EXCEPT ![call.obj] = Append(@, call.indices)]
  /\ prev' = [prev EXCEPT !.last = "returned"]
  /\ call' = NoCall
  /\ UNCHANGED <<fn, base, mem, strategy, llvm, parked, ref>>

\* as CallerCatch, by a caller that gives up the object on a failure
CallerCatch_Discarding ==
  /\ call.pc = "failed"
  /\ hist' = [hist EXCEPT ![call.obj] = Append(@, call.indices)]
  /\ prev' = [prev EXCEPT !.last = "failed", !.failed = TRUE]
  /\ strategy' = [strategy EXCEPT ![call.obj] = NoObject]
  /\ call' = NoCall
  /\ UNCHANGED <<fn, base, mem, llvm, parked, ref>>

\* execute has failed: the failure of the body reaches the caller, who goes on
CallerCatch ==
  /\ call.pc = "failed"
  /\ hist' = [hist EXCEPT ![call.obj] = Append(@, call.indices)]
  /\ prev' = [prev EXCEPT !.last = "failed", !.failed = TRUE]
  /\ call' = NoCall
  /\ UNCHANGED <<fn, base, mem, strategy, llvm, parked, ref>>

OutputsOf(m, o) == [k \in 1 .. output_amount(fn) |-> m[OutBuffer(o, k)]]

\* the caller initialises the output buffers of object o anew; the outcome of
\* the first call on the object is kept for comparison with a later run
FreshBuffers(o) ==
  /\ Idle
  /\ strategy[o].state = "ready"
  /\ hist[o] # <<>>
  /\ mem' = [b \in DOMAIN mem |->
       IF b.kind = "out" /\ b.obj = o THEN InitOutput(fn.output_types[b.slot].size)
                                      ELSE mem[b]]
  /\ hist' = [hist EXCEPT ![o] = <<>>]
  /\ prev' = IF Len(hist[o]) = 1 /\ prev.obj = 0 /\ prev.last = "returned" /\ ~prev.failed
             THEN [prev EXCEPT !.obj = o, !.indices = hist[o][1],
                               !.out = OutputsOf(mem, o)]
             ELSE prev
  /\ UNCHANGED <<fn, base, strategy, call, llvm, parked, ref>>

(***************************************************************************)
(* BLI::ArrayRef and BLI::MutableArrayRef (blenlib/BLI_array_ref.hpp).  A   *)
(* `uint` is a pair of limbs <<hi, lo>>; a pointer is an array (or null)    *)
(* and an element position in it, kept exactly, as pointers are wider than *)
(* `uint`.                                                                 *)
(***************************************************************************)
Uint(n) == <<n \div Limb, n % Limb>>
\* a + b as a mathematical sum: its upper limb may exceed a `uint`
ExactAdd(a, b) == <<a[1] + b[1] + ((a[2] + b[2]) \div Limb), (a[2] + b[2]) % Limb>>
\* a + b computed in `uint`: the sum modulo 2^UintBits
UintAdd(a, b) == LET e == ExactAdd(a, b) IN <<e[1] % Limb, e[2]>>
Less(a, b) == a[1] < b[1] \/ (a[1] = b[1] /\ a[2] < b[2])
LessEq(a, b) == a = b \/ Less(a, b)

\* the `uint` values the operations are tried with: small ones, the two
\* largest ones and 2^(UintBits - 1)
UintSamples ==
  { Uint(n) : n \in 0 .. MaxLen } \cup
  { <<Limb - 1, Limb - 1>>, <<Limb - 1, Limb - 2>>, <<Limb \div 2, 0>> }

NullPtr == [array |-> "null", pos |-> Uint(0)]
PtrAdd(ptr, n) == [ptr EXCEPT !.pos = ExactAdd(ptr.pos, n)]
\* the array of MaxLen elements the references refer to, and its elements
InArray(ptr) == ptr.array = "array" /\ Less(ptr.pos, Uint(MaxLen))
ElementAt(ptr) == IF InArray(ptr) THEN 100 + ptr.pos[2] ELSE 0
Fallbacks == {-1, 100}

\* ArrayRef() and ArrayRef(start, size): the references a caller can make
ArrayRef(start, size) == [m_start |-> start, m_size |-> size]
ValidRefs ==
  { ArrayRef(NullPtr, Uint(0)) } \cup
  { ArrayRef([array |-> "array", pos |-> Uint(x[1])], Uint(x[2])) :
      x \in { y \in (0 .. MaxLen) \X (0 .. MaxLen) : y[1] + y[2] <= MaxLen } }

\* ArrayRef::slice, MutableArrayRef::slice
slice(self, start, length) ==
  IF LessEq(UintAdd(start, length), self.m_size)
  THEN [asserted |-> FALSE, view |-> ArrayRef(PtrAdd(self.m_start, start), length)]
  ELSE [asserted |-> TRUE, view |-> ArrayRef(NullPtr, Uint(0))]

\* a - b computed in `uint`: the difference modulo 2^UintBits
UintSub(a, b) ==
  LET borrow == IF a[2] < b[2] THEN 1 ELSE 0
  IN  <<(a[1] - b[1] - borrow + Limb) % Limb, (a[2] - b[2] + Limb) % Limb>>

\* the outcome of an operation whose own assertion failed
AssertionFailed == [asserted |-> TRUE, view |-> ArrayRef(NullPtr, Uint(0))]

\* as drop_front, without the assertion of its own
drop_front_Unchecked(self, n) == slice(self, n, UintSub(self.m_size, n))

\* ArrayRef::drop_front, MutableArrayRef::drop_front
drop_front(self, n) ==
  IF LessEq(n, self.m_size) THEN slice(self, n, UintSub(self.m_size, n))
  ELSE AssertionFailed

\* as drop_back, doing what drop_front does
drop_back_Front(self, n) ==
  IF LessEq(n, self.m_size) THEN slice(self, n, UintSub(self.m_size, n))
  ELSE AssertionFailed

\* ArrayRef::drop_back, MutableArrayRef::drop_back
drop_back(self, n) ==
  IF LessEq(n, self.m_size) THEN slice(self, Uint(0), UintSub(self.m_size, n))
  ELSE AssertionFailed

\* ArrayRef::take_front, MutableArrayRef::take_front
take_front(self, n) ==
  IF LessEq(n, self.m_size) THEN slice(self, Uint(0), n)
  ELSE AssertionFailed

\* ArrayRef::take_back, MutableArrayRef::take_back
take_back(self, n) ==
  IF LessEq(n, self.m_size) THEN slice(self, UintSub(self.m_size, n), n)
  ELSE AssertionFailed

\* as get, with the index compared by <=
get_Inclusive(self, index, fallback) ==
  IF LessEq(index, self.m_size)
  THEN [value |-> ElementAt(PtrAdd(self.m_start, index)),
        reads |-> {PtrAdd(self.m_start, index)}]
  ELSE [value |-> fallback, reads |-> {}]

\* ArrayRef::get: the value returned and the addresses read
get(self, index, fallback) ==
  IF Less(index, self.m_size)
  THEN [value |-> ElementAt(PtrAdd(self.m_start, index)),
        reads |-> {PtrAdd(self.m_start, index)}]
  ELSE [value |-> fallback, reads |-> {}]

RefSlice ==
  /\ ref = NoRef
  /\ \E class \in {"ArrayRef", "MutableArrayRef"} : \E self \in ValidRefs :
       \E start \in UintSamples : \E length \in UintSamples :
         ref' = [op |-> "slice", class |-> class, self |-> self,
                 start |-> start, length |-> length,
                 outcome |-> slice(self, start, length)]
  /\ UNCHANGED <<fn, base, mem, strategy, call, llvm, hist, prev, parked>>

RefOperation(op, class, self, n, outcome) ==
  ref' = [op |-> op, class |-> class, self |-> self, n |-> n, outcome |-> outcome]

RefClasses == {"ArrayRef", "MutableArrayRef"}

RefDropFront ==
  /\ ref = NoRef
  /\ \E class \in RefClasses : \E self \in ValidRefs : \E n \in UintSamples :
       RefOperation("drop_front", class, self, n, drop_front(self, n))
  /\ UNCHANGED <<fn, base, mem, strategy, call, llvm, hist, prev, parked>>

RefDropBack ==
  /\ ref = NoRef
  /\ \E class \in RefClasses : \E self \in ValidRefs : \E n \in UintSamples :
       RefOperation("drop_back", class, self, n, drop_back(self, n))
  /\ UNCHANGED <<fn, base, mem, strategy, call, llvm, hist, prev, parked>>

RefTakeFront ==
  /\ ref = NoRef
  /\ \E class \in RefClasses : \E self \in ValidRefs : \E n \in UintSamples :
       RefOperation("take_front", class, self, n, take_front(self, n))
  /\ UNCHANGED <<fn, base, mem, strategy, call, llvm, hist, prev, parked>>

RefTakeBack ==
  /\ ref = NoRef
  /\ \E class \in RefClasses : \E self \in ValidRefs : \E n \in UintSamples :
       RefOperation("take_back", class, self, n, take_back(self, n))
  /\ UNCHANGED <<fn, base, mem, strategy, call, llvm, hist, prev, parked>>

RefGet ==
  /\ ref = NoRef
  /\ \E self \in ValidRefs : \E index \in UintSamples : \E fallback \in Fallbacks :
       ref' = [op |-> "get", class |-> "ArrayRef", self |-> self,
               index |-> index, fallback |-> fallback,
               outcome |-> get(self, index, fallback)]
  /\ UNCHANGED <<fn, base, mem, strategy, call, llvm, hist, prev, parked>>

(***************************************************************************)
(* Specifications.                                                         *)
(***************************************************************************)
Construct(o) == \E kind \in {"tuple", "llvm"} : ArrayExecutionCtor(o, kind)
Constructing(o) == TupleCallCtor(o) \/ LLVMCtor(o) \/ compile(o)
Execute(o) == \E indices \in IndexSeqs :
                TupleCallEntry(o, indices) \/ LLVMCallEntry(o, indices)
Running ==
  \/ TupleLoopHead \/ TupleCopyIn \/ TupleCall \/ TupleRelocateOut \/ TupleLoopNext
  \/ LLVMLoopHead \/ LLVMLoadInputs \/ LLVMCallBody \/ LLVMStoreOutputs

\* one strategy object and the calls on it
Next ==
  \/ \E o \in {1} : Construct(o) \/ Constructing(o) \/ Execute(o)
  \/ Running
  \/ CallerResume

Spec == Init /\ [][Next]_vars

\* one strategy object, one call on it repeated any number of times, each time
\* on output buffers initialised anew
Reexecute(o) ==
  \E indices \in IndexSeqs :
    /\ hist[o] = <<>>
    /\ prev.obj = o => indices = prev.indices
    /\ TupleCallEntry(o, indices) \/ LLVMCallEntry(o, indices)

NextRerun ==
  \/ \E o \in {1} : Construct(o) \/ Constructing(o) \/ Reexecute(o) \/ FreshBuffers(o)
  \/ Running
  \/ CallerResume

SpecRerun == Init /\ [][NextRerun]_vars

\* two strategy objects built from the same descriptor, over the same inputs
NextPair ==
  \/ \E o \in Objs : Construct(o) \/ Constructing(o) \/ Execute(o)
  \/ Running
  \/ CallerResume

SpecPair == Init /\ [][NextPair]_vars

\* the running constructor or call always takes its next step
SpecLive == Init /\ [][Next]_vars /\ WF_vars(Running)

\* the calls of two threads on one strategy object.  `call` is the call of the
\* thread that runs, `parked` the call of the thread that waits; the threads
\* change places between any two steps.
InFlight(o) == IF parked # NoCall /\ parked.obj = o THEN <<parked.indices>> ELSE <<>>

ExecuteThread(o) ==
  \E indices \in IndexSeqs :
    /\ Len(hist[o]) + Len(InFlight(o)) < MaxCalls
    /\ TotalLen(hist[o]) + TotalLen(InFlight(o)) + Len(indices) <= MaxTotal
    /\ TupleCallEntry(o, indices) \/ LLVMCallEntry(o, indices)

Switch ==
  /\ call # NoCall \/ parked # NoCall
  /\ call' = parked
  /\ parked' = call
  /\ UNCHANGED <<fn, base, mem, strategy, llvm, hist, prev, ref>>

NextThreads ==
  \/ \E o \in {1} : Construct(o) \/ Constructing(o) \/ ExecuteThread(o)
  \/ Switch
  \/ Running
  \/ CallerResume

SpecThreads == Init /\ [][NextThreads]_vars

\* one operation of an ArrayRef, tried on every reference and argument
InitRef == Init /\ fn.name = "double" /\ fn.bodies = BodyKinds /\ base = 0
NextRef ==
  \/ RefSlice \/ RefGet
  \/ RefDropFront \/ RefDropBack \/ RefTakeFront \/ RefTakeBack
SpecRef == InitRef /\ [][NextRef]_vars

\* one strategy object whose compilation may fail, and the calls on it
NextBuild ==
  \/ \E o \in {1} : Construct(o) \/ Constructing(o) \/ compile_fails(o) \/ Execute(o)
  \/ Running
  \/ CallerResume

SpecBuild == Init /\ [][NextBuild]_vars

\* one strategy object, one call on it repeated any number of times, each time
\* on output buffers initialised anew; the body of a boxed call may fail
NextFail ==
  \/ \E o \in {1} : Construct(o) \/ Constructing(o) \/ Reexecute(o) \/ FreshBuffers(o)
  \/ Running
  \/ TupleCallFails
  \/ CallerResume
  \/ CallerCatch

SpecFail == Init /\ [][NextFail]_vars

\* one strategy object, called once on its output buffers by a caller that
\* may pass too few or too many buffers
ExecuteWith(o) ==
  \E indices \in IndexSeqs :
    /\ hist[o] = <<>>
    /\ \E input_buffers \in ArgLists(input_buffers_of(o)) :
        \E output_buffers \in ArgLists(output_buffers_of(o)) :
          \/ TupleCallWith(o, indices, input_buffers, output_buffers)
          \/ LLVMCallWith(o, indices, input_buffers, output_buffers)

NextArity ==
  \/ \E o \in {1} : Construct(o) \/ Constructing(o) \/ ExecuteWith(o)
  \/ Running
  \/ LLVMLoadUnmapped \/ LLVMStoreUnmapped
  \/ CallerResume

SpecArity == Init /\ [][NextArity]_vars

\* one strategy object, called once by a caller who passes, for one output or
\* more, an input buffer of the same element size as the output buffer
InPlaceLists(o) ==
  { s \in [1 .. output_amount(fn) ->
            {OutBuffer(o, k) : k \in 1 .. output_amount(fn)} \cup
            {InBuffer(j) : j \in 1 .. input_amount(fn)}] :
      /\ \A k \in 1 .. output_amount(fn) :
           \/ s[k] = OutBuffer(o, k)
           \/ /\ s[k].kind = "in"
              /\ fn.input_types[s[k].slot].size = fn.output_types[k].size
      /\ \E k \in 1 .. output_amount(fn) : s[k].kind = "in" }

ExecuteInPlace(o) ==
  \E indices \in IndexSeqs :
    /\ hist[o] = <<>>
    /\ \E output_buffers \in InPlaceLists(o) :
         \/ TupleCallWith(o, indices, input_buffers_of(o), output_buffers)
         \/ LLVMCallWith(o, indices, input_buffers_of(o), output_buffers)

NextAlias ==
  \/ \E o \in {1} : Construct(o) \/ Constructing(o) \/ ExecuteInPlace(o)
  \/ Running
  \/ CallerResume

SpecAlias == Init /\ [][NextAlias]_vars

(***************************************************************************)
(* What the claims speak of.                                               *)
(***************************************************************************)
Returned == call.pc = "returned"
Count(seq, x) == Cardinality({p \in DOMAIN seq : seq[p] = x})
Occurs(seq, x) == \E p \in DOMAIN seq : seq[p] = x

RECURSIVE Flatten(_)
Flatten(h) == IF h = <<>> THEN <<>> ELSE Head(h) \o Flatten(Tail(h))

\* element `index` of input slot k / output slot k of object o, as the caller sees it
InputElement(m, k, index) == m[InBuffer(k)][ExactMul(index, fn.input_types[k].size)]
OutputElement(m, o, k, index) == m[OutBuffer(o, k)][ExactMul(index, fn.output_types[k].size)]

\* the outputs of the function for the inputs at `index`
ExpectedAt(m, index) ==
  BodyResult(fn, [k \in 1 .. input_amount(fn) |-> InputElement(m, k, index)])

\* index * size does not fit `uint` for some element size of the function
Wraps(index) ==
  \/ \E k \in 1 .. input_amount(fn) :
       UintMul(index, fn.input_types[k].size) # ExactMul(index, fn.input_types[k].size)
  \/ \E k \in 1 .. output_amount(fn) :
       UintMul(index, fn.output_types[k].size) # ExactMul(index, fn.output_types[k].size)
NoWrap(indices) == \A p \in DOMAIN indices : ~Wraps(indices[p])

(***************************************************************************)
(* C1.  When an execute call has returned, for every index i occurring in  *)
(* indices and every output slot k, element i of output buffer k holds the *)
(* k-th output of the body applied to the elements i of the input buffers. *)
(***************************************************************************)
C1_OutputsComputed ==
  Returned =>
    \A p \in DOMAIN call.indices : \A k \in 1 .. output_amount(fn) :
      OutputElement(mem, call.obj, k, call.indices[p]) = ExpectedAt(mem, call.indices[p])[k]

\* the same for calls none of whose offsets needs more than UintBits bits
OutputsComputedNoWrap ==
  (Returned /\ NoWrap(call.indices)) =>
    \A p \in DOMAIN call.indices : \A k \in 1 .. output_amount(fn) :
      OutputElement(mem, call.obj, k, call.indices[p]) = ExpectedAt(mem, call.indices[p])[k]

(***************************************************************************)
(* C2.  A boxed-call object and a compiled-batch object built from the     *)
(* same descriptor, run on the same index sequences over the same inputs   *)
(* and identically initialised output buffers, leave identical output      *)
(* buffers, at every position.                                             *)
(***************************************************************************)
C2_StrategiesAgree ==
  (/\ Idle
   /\ strategy[1].state = "ready" /\ strategy[2].state = "ready"
   /\ strategy[1].kind # strategy[2].kind
   /\ hist[1] = hist[2])
  => OutputsOf(mem, 1) = OutputsOf(mem, 2)

StrategiesAgreeNoWrap ==
  (/\ Idle
   /\ strategy[1].state = "ready" /\ strategy[2].state = "ready"
   /\ strategy[1].kind # strategy[2].kind
   /\ hist[1] = hist[2]
   /\ NoWrap(Flatten(hist[1])))
  => OutputsOf(mem, 1) = OutputsOf(mem, 2)

(***************************************************************************)
(* C3.  An execute call leaves every output element whose position is not  *)
(* a member of indices as it was before the call.                          *)
(***************************************************************************)
C3_OthersUntouched ==
  Returned =>
    \A k \in 1 .. output_amount(fn) : \A i \in Indices :
      ~Occurs(call.indices, i) =>
        OutputElement(mem, call.obj, k, i) = OutputElement(call.before, call.obj, k, i)

OthersUntouchedNoWrap ==
  (Returned /\ NoWrap(call.indices)) =>
    \A k \in 1 .. output_amount(fn) : \A i \in Indices :
      ~Occurs(call.indices, i) =>
        OutputElement(mem, call.obj, k, i) = OutputElement(call.before, call.obj, k, i)

(***************************************************************************)
(* C4.  No execute call changes an element of an input buffer (no output   *)
(* buffer is an input buffer here): at every step of every call, also one  *)
(* with repeated indices, the input buffers hold what they were given.     *)
(***************************************************************************)
C4_InputsUnchanged ==
  \A k \in 1 .. input_amount(fn) :
    mem[InBuffer(k)] = InitInput(base, k, fn.input_types[k].size)

C4_Witness ==
  /\ Returned
  /\ Len(call.indices) = 2
  /\ call.indices[1] = call.indices[2]

(***************************************************************************)
(* C5.  A call with an empty index sequence goes from its entry straight   *)
(* to its return: the body is never invoked and no buffer element changes. *)
(***************************************************************************)
C5_EmptyIndices ==
  (call.pc # "none" /\ call.indices = <<>>) =>
    /\ call.pc \in {"loop", "llvm_loop", "returned"}
    /\ call.processed = <<>>
    /\ mem = call.before

C5_Witness ==
  /\ Returned
  /\ call.indices = <<>>
  /\ hist[call.obj] # <<>>

(***************************************************************************)
(* C6.  For distinct indices, two objects of the same strategy that were   *)
(* given the same indices, in any order and split over any number of       *)
(* calls, leave the same output buffers.                                   *)
(***************************************************************************)
SameIndexSet(a, b) ==
  \A i \in Indices : Count(a, i) <= 1 /\ Count(a, i) = Count(b, i)

C6_OrderIndependent ==
  (/\ Idle
   /\ strategy[1].state = "ready" /\ strategy[2].state = "ready"
   /\ strategy[1].kind = strategy[2].kind
   /\ SameIndexSet(Flatten(hist[1]), Flatten(hist[2])))
  => OutputsOf(mem, 1) = OutputsOf(mem, 2)

OrderIndependentNoWrap ==
  (/\ Idle
   /\ strategy[1].state = "ready" /\ strategy[2].state = "ready"
   /\ strategy[1].kind = strategy[2].kind
   /\ SameIndexSet(Flatten(hist[1]), Flatten(hist[2]))
   /\ NoWrap(Flatten(hist[1])))
  => OutputsOf(mem, 1) = OutputsOf(mem, 2)

(***************************************************************************)
(* C7.  A call repeated on the same object with the same indices and the   *)
(* same inputs, on freshly initialised output buffers, leaves the output   *)
(* buffers the earlier run left.                                           *)
(***************************************************************************)
C7_RerunSame ==
  \A o \in Objs :
    (/\ Idle
     /\ prev.obj = o
     /\ hist[o] = <<prev.indices>>)
    => OutputsOf(mem, o) = prev.out

C7_Witness ==
  /\ Idle
  /\ prev.obj = 1
  /\ hist[1] = <<prev.indices>>
  /\ Len(prev.indices) = 2

(***************************************************************************)
(* C8.  When a call has returned the body has been invoked once for every  *)
(* position of indices: Len(indices) times, and n times for an index that  *)
(* occurs n times.                                                         *)
(***************************************************************************)
C8_OncePerPosition ==
  Returned =>
    /\ Len(call.processed) = Len(call.indices)
    /\ \A i \in Indices : Count(call.processed, i) = Count(call.indices, i)

C8_Witness ==
  /\ Returned
  /\ Len(call.indices) = 2
  /\ call.indices[1] = call.indices[2]
  /\ Len(call.processed) = 2

(***************************************************************************)
(* C9.  Every execute call that was entered returns, with the whole index  *)
(* sequence processed and its strategy object ready for the next call.     *)
(***************************************************************************)
C9_CallReturns ==
  /\ (call.pc # "none") ~> Returned
  /\ [](Returned => /\ Len(call.processed) = Len(call.indices)
                    /\ strategy[call.obj].state = "ready"
                    /\ ENABLED CallerResume)

C9_Witness ==
  /\ Returned
  /\ Len(call.indices) = 2
  /\ hist[call.obj] # <<>>

(***************************************************************************)
(* C10.  An object constructed for a strategy whose body the descriptor    *)
(* lacks never gets past the constructor's assertion: it is never ready,   *)
(* and for the compiled-batch strategy no module is created, the JIT       *)
(* context is not acquired and no function is compiled.                    *)
(***************************************************************************)
C10_AssertionFirst ==
  \A o \in Objs :
    /\ (strategy[o].kind = "tuple" /\ ~has_body(fn, "TupleCallBody"))
         => strategy[o].state \in {"base", "aborted"}
    /\ (strategy[o].kind = "llvm" /\ ~has_body(fn, "LLVMBuildIRBody"))
         => /\ strategy[o].state \in {"base", "aborted"}
            /\ strategy[o].m_compiled_function = "null"
            /\ llvm.acquired = 0 /\ llvm.modules = 0

C10_Witness ==
  \E o \in Objs : strategy[o].kind = "llvm" /\ strategy[o].state = "aborted"

(***************************************************************************)
(* C11.  For both strategies a call whose number of input buffers or of    *)
(* output buffers differs from the function's number of inputs or outputs  *)
(* is rejected by an assertion at its entry: no call is ever in progress,  *)
(* crashed or returned with a number of buffers that does not match.       *)
(***************************************************************************)
C11_ArityAsserted ==
  call.pc # "none" =>
    /\ Len(call.input_buffers) = input_amount(fn)
    /\ Len(call.output_buffers) = output_amount(fn)

\* the boxed strategy does assert it
TupleArityAsserted ==
  (call.pc # "none" /\ strategy[call.obj].kind = "tuple") =>
    /\ Len(call.input_buffers) = input_amount(fn)
    /\ Len(call.output_buffers) = output_amount(fn)

\* a boxed call that has returned leaves the memory TupleRun computes
TupleRunIsCall ==
  (Returned /\ strategy[call.obj].kind = "tuple") =>
    mem = TupleRun(call, call.indices, call.before)

(***************************************************************************)
(* C12.  When the body of a boxed call fails at position p of indices, the *)
(* failure leaves the call: the body has been invoked for the positions    *)
(* 1..p and for no other, the memory is what the rounds for the positions  *)
(* before p left (nothing written for p or later, nothing taken back), and *)
(* the only thing that follows is the caller receiving the failure, with   *)
(* the memory as it is.                                                    *)
(***************************************************************************)
C12_FailureStopsCall ==
  /\ [](call.pc = "failed" =>
         /\ call.processed = SubSeq(call.indices, 1, call.pos)
         /\ mem = TupleRun(call, SubSeq(call.indices, 1, call.pos - 1), call.before))
  /\ [][call.pc = "failed" =>
          /\ call' = NoCall /\ mem' = mem
          /\ prev'.last = "failed"]_vars

C12_Witness ==
  /\ call.pc = "failed"
  /\ call.pos = 2
  /\ mem # call.before

C14_CompileFailureIsCtorFailure ==
  /\ [](\A o \in Objs :
         /\ (strategy[o].kind = "llvm" /\ strategy[o].state = "ready")
              => strategy[o].m_compiled_function # "null"
         /\ strategy[o].state = "ctor_failed"
              => (strategy[o].m_compiled_function = "null" /\ hist[o] = <<>>))
  /\ [](call.pc # "none" =>
         /\ call.pc # "crashed"
         /\ strategy[call.obj].kind = "llvm"
              => strategy[call.obj].m_compiled_function # "null")
  /\ [][\A o \in Objs : strategy[o].state = "ctor_failed"
                           => strategy'[o].state = "ctor_failed"]_vars

C14_Witness ==
  /\ strategy[1].state = "ctor_failed"
  /\ call = NoCall
  /\ llvm.acquired = 1

(***************************************************************************)
(* C16.  A compiled-batch object is compiled exactly once, while it is     *)
(* constructed: once it is ready one module has been compiled for it, and  *)
(* no step of a call compiles anything or replaces the compiled function.  *)
(***************************************************************************)
C16_CompiledOnce ==
  /\ [](strategy[1].state = "ready" =>
         /\ llvm.modules = (IF strategy[1].kind = "llvm" THEN 1 ELSE 0)
         /\ llvm.acquired = llvm.modules)
  /\ [][strategy[1].state = "ready" =>
          /\ llvm' = llvm
          /\ strategy'[1].m_compiled_function = strategy[1].m_compiled_function]_vars

C16_Witness ==
  /\ Idle
  /\ strategy[1].kind = "llvm"
  /\ Len(hist[1]) = MaxCalls
  /\ llvm.modules = 1

(***************************************************************************)
(* C17.  A call on a compiled-batch object calls the compiled function     *)
(* exactly once, with five arguments: the number of indices, the indices,  *)
(* the array of input buffers, the array of output buffers and the         *)
(* execution context, each as the call received it.                        *)
(***************************************************************************)
C17_OneNativeCall ==
  (call.pc # "none" /\ strategy[call.obj].kind = "llvm") =>
    /\ call.native_calls = 1
    /\ call.size = Len(call.indices)
    /\ call.indices_arg = call.indices
    /\ call.input_buffers_arg = call.input_buffers
    /\ call.output_buffers_arg = call.output_buffers
    /\ call.context_ptr = call.execution_context

C17_Witness ==
  /\ Returned
  /\ strategy[call.obj].kind = "llvm"
  /\ call.native_calls = 1
  /\ call.size = MaxTotal

(***************************************************************************)
(* C18.  From its construction on, the size tables of a strategy object    *)
(* have one entry per input and one per output of the function, entry k    *)
(* being the byte size of the k-th type; no call changes them.             *)
(***************************************************************************)
C18_SizeTables ==
  \A o \in Objs : strategy[o].state # "none" =>
    /\ Len(strategy[o].m_input_sizes) = input_amount(fn)
    /\ Len(strategy[o].m_output_sizes) = output_amount(fn)
    /\ \A k \in 1 .. input_amount(fn) :
         strategy[o].m_input_sizes[k] = fn.input_types[k].size
    /\ \A k \in 1 .. output_amount(fn) :
         strategy[o].m_output_sizes[k] = fn.output_types[k].size

C18_Witness ==
  /\ Idle
  /\ hist[1] # <<>>
  /\ strategy[1].m_output_sizes = <<Type8.size, Type4.size>>

\* a compiled call that has returned leaves the memory LLVMRun computes
LLVMRunIsCall ==
  (Returned /\ strategy[call.obj].kind = "llvm") =>
    mem = LLVMRun(call, call.indices, call.before)

\* the memory the calls of `h` leave when object o runs them one after the other
RECURSIVE SequentialRun(_, _, _)
SequentialRun(o, h, m) ==
  IF h = <<>> THEN m
  ELSE LET c == [NewCall(o, Head(h), "none") EXCEPT
                   !.typed_input_buffers = input_buffers_of(o),
                   !.typed_output_buffers = output_buffers_of(o)]
       IN  SequentialRun(o, Tail(h),
             IF strategy[o].kind = "tuple" THEN TupleRun(c, Head(h), m)
                                           ELSE LLVMRun(c, Head(h), m))

Disjoint(a, b) == \A p \in DOMAIN a : \A q \in DOMAIN b : a[p] # b[q]

\* two calls on object 1 have been made, by threads that may have run at the
\* same time, and both have returned
BothReturned ==
  /\ Idle /\ parked = NoCall
  /\ strategy[1].state = "ready"
  /\ Len(hist[1]) = 2

(***************************************************************************)
(* C15.  When two threads have each run one call on the same strategy      *)
(* object, with index sequences that have no index in common, the output   *)
(* buffers are, however the steps of the two calls were interleaved, what  *)
(* running the two calls one after the other leaves, in either order.      *)
(***************************************************************************)
C15_ConcurrentAsSequential ==
  (BothReturned /\ Disjoint(hist[1][1], hist[1][2])) =>
    /\ mem = SequentialRun(1, <<hist[1][1], hist[1][2]>>, InitMem(fn, base))
    /\ mem = SequentialRun(1, <<hist[1][2], hist[1][1]>>, InitMem(fn, base))

\* the same for calls none of whose offsets needs more than UintBits bits
ConcurrentAsSequentialNoWrap ==
  (BothReturned /\ Disjoint(hist[1][1], hist[1][2]) /\ NoWrap(Flatten(hist[1]))) =>
    /\ mem = SequentialRun(1, <<hist[1][1], hist[1][2]>>, InitMem(fn, base))
    /\ mem = SequentialRun(1, <<hist[1][2], hist[1][1]>>, InitMem(fn, base))

\* what the calls share is only read, and a thread that waits keeps its frames
SharedIsReadOnly ==
  [][strategy[1].state = "ready" =>
       /\ strategy' = strategy /\ fn' = fn
       /\ (parked # NoCall /\ parked' # NoCall /\ call' # parked) => parked' = parked]_vars

\* the elements a reference refers to
RefersTo(self, ptr) ==
  /\ ptr.array = self.m_start.array
  /\ LessEq(self.m_start.pos, ptr.pos)
  /\ Less(ptr.pos, ExactAdd(self.m_start.pos, self.m_size))

(***************************************************************************)
(* C19.  slice(start, length) of an ArrayRef or MutableArrayRef asserts    *)
(* whenever the sum of start and length, as numbers, exceeds size(); when  *)
(* it does not assert, the view it returns starts at element start, has    *)
(* length elements and lies inside the original reference.                 *)
(***************************************************************************)
C19_SliceInBounds ==
  ref.op = "slice" =>
    /\ Less(ref.self.m_size, ExactAdd(ref.start, ref.length)) => ref.outcome.asserted
    /\ ~ref.outcome.asserted =>
         /\ ref.outcome.view = ArrayRef(PtrAdd(ref.self.m_start, ref.start), ref.length)
         /\ LessEq(ExactAdd(ref.start, ref.length), ref.self.m_size)

\* the same for start and length whose sum fits `uint`
SliceInBoundsNoWrap ==
  (ref.op = "slice" /\ UintAdd(ref.start, ref.length) = ExactAdd(ref.start, ref.length)) =>
    /\ Less(ref.self.m_size, ExactAdd(ref.start, ref.length)) => ref.outcome.asserted
    /\ ~ref.outcome.asserted =>
         /\ ref.outcome.view = ArrayRef(PtrAdd(ref.self.m_start, ref.start), ref.length)
         /\ LessEq(ExactAdd(ref.start, ref.length), ref.self.m_size)

(***************************************************************************)
(* C20.  get(index, fallback) returns the element at index when index is   *)
(* less than size() and fallback for every other index, also on a          *)
(* reference of size 0 with a null start; it reads no address outside the  *)
(* elements the reference refers to.                                        *)
(***************************************************************************)
C20_GetOrFallback ==
  ref.op = "get" =>
    /\ (ref.index[1] = 0 /\ ref.index[2] < ref.self.m_size[2])
         => ref.outcome.value = 100 + ref.self.m_start.pos[2] + ref.index[2]
    /\ ~(ref.index[1] = 0 /\ ref.index[2] < ref.self.m_size[2])
         => (ref.outcome.value = ref.fallback /\ ref.outcome.reads = {})
    /\ \A ptr \in ref.outcome.reads : RefersTo(ref.self, ptr) /\ InArray(ptr)

C20_Witness ==
  /\ ref.op = "get"
  /\ ref.self = ArrayRef(NullPtr, Uint(0))
  /\ ref.index = <<Limb - 1, Limb - 1>>
  /\ ref.outcome.value = ref.fallback

\* the reference to the elements [from, from + length) of a reference
Part(self, from, length) == ArrayRef(PtrAdd(self.m_start, Uint(from)), Uint(length))
\* a small n, as a number
Small(n) == n[2]
Fits(n, self) == n[1] = 0 /\ n[2] <= self.m_size[2]

Within(view, self) ==
  /\ view.m_start.array = self.m_start.array
  /\ LessEq(self.m_start.pos, view.m_start.pos)
  /\ LessEq(ExactAdd(view.m_start.pos, view.m_size),
            ExactAdd(self.m_start.pos, self.m_size))
\* a is front followed by back
Joined(front, back, a) ==
  /\ front.m_start = a.m_start
  /\ back.m_start = PtrAdd(front.m_start, front.m_size)
  /\ ExactAdd(front.m_size, back.m_size) = a.m_size

ConstructorsExited ==
  \A o \in Objs : strategy[o].state \in {"none", "ready", "ctor_failed"}

(***************************************************************************)
(* C22.  Whenever no constructor is running, whether the constructors that *)
(* ran have returned or failed, the JIT context has been released as often *)
(* as it has been acquired.                                                *)
(***************************************************************************)
C22_ContextReleased ==
  ConstructorsExited => llvm.released = llvm.acquired

\* the same when no compilation has failed
ContextReleasedOnReturn ==
  (ConstructorsExited /\ \A o \in Objs : strategy[o].state # "ctor_failed")
    => llvm.released = llvm.acquired

(***************************************************************************)
(* C23.  In a boxed call the address an input is copied from and the       *)
(* address an output is relocated to are the buffer plus the exact product *)
(* of the index and the element size, the address the compiled strategy's  *)
(* strided pointer arithmetic gives for that index.                        *)
(***************************************************************************)
C23_ExactOffsets ==
  /\ call.pc = "copy_in" =>
       TupleInputPtr(call, call.i, call.indices[call.pos]) =
         GEP(call.input_buffers[call.i],
             fn.input_types[call.i].size, call.indices[call.pos])
  /\ call.pc = "relocate_out" =>
       TupleOutputPtr(call, call.i, call.indices[call.pos]) =
         GEP(call.output_buffers[call.i],
             fn.output_types[call.i].size, call.indices[call.pos])

\* the same for indices none of whose offsets needs more than UintBits bits
ExactOffsetsNoWrap ==
  (call.pc \in {"copy_in", "relocate_out"} /\ ~Wraps(call.indices[call.pos])) =>
    /\ call.pc = "copy_in" =>
         TupleInputPtr(call, call.i, call.indices[call.pos]) =
           GEP(call.input_buffers[call.i],
               fn.input_types[call.i].size, call.indices[call.pos])
    /\ call.pc = "relocate_out" =>
         TupleOutputPtr(call, call.i, call.indices[call.pos]) =
           GEP(call.output_buffers[call.i],
               fn.output_types[call.i].size, call.indices[call.pos])

\* a boxed call is in progress
InTupleCall == call.pc # "none" /\ strategy[call.obj].kind = "tuple"
Full(tuple, slots) == \A k \in slots : tuple[k].init
Empty(tuple, slots) == \A k \in slots : ~tuple[k].init

(***************************************************************************)
(* C24.  A boxed call processes the positions of indices one after the     *)
(* other in sequence order; for each position it copies in every input,    *)
(* then calls the body once, then relocates out every output: memory is    *)
(* written only while the outputs of the current position, whose body call *)
(* has returned, are relocated, and no input of a position is read while   *)
(* an output of the position before it is still in the tuple.              *)
(***************************************************************************)
C24_InSequence ==
  /\ [](InTupleCall =>
         /\ call.processed = SubSeq(call.indices, 1, Len(call.processed))
         /\ call.pc \in {"loop", "copy_in", "call"} =>
              (Len(call.processed) = call.pos - 1 /\ Empty(call.fn_out, DOMAIN call.fn_out))
         /\ call.pc = "copy_in" => Full(call.fn_in, 1 .. call.i - 1)
         /\ call.pc = "call" => Full(call.fn_in, DOMAIN call.fn_in)
         /\ call.pc \in {"relocate_out", "next"} => Len(call.processed) = call.pos
         /\ call.pc = "relocate_out" =>
              /\ Empty(call.fn_out, 1 .. call.i - 1)
              /\ Full(call.fn_out, call.i .. output_amount(fn))
         /\ call.pc = "next" => Empty(call.fn_out, DOMAIN call.fn_out))
  /\ [][InTupleCall =>
          /\ mem' # mem =>
               (call.pc = "relocate_out" /\ Len(call.processed) = call.pos)
          /\ call'.pc # "none" =>
               (call'.pos = call.pos \/ (call.pc = "next" /\ call'.pos = call.pos + 1))]_vars

C24_Witness ==
  /\ InTupleCall
  /\ call.pc = "copy_in"
  /\ call.pos = MaxTotal
  /\ mem # call.before

C26_TuplesOncePerCall ==
  /\ [](InTupleCall =>
         /\ call.tuples_allocated = 1
         /\ DOMAIN call.fn_in = 1 .. input_amount(fn)
         /\ DOMAIN call.fn_out = 1 .. output_amount(fn))
  /\ [](call.pc = "returned" => Empty(call.fn_out, DOMAIN call.fn_out))
  /\ [][call.pc = "returned" => call' = NoCall]_vars
  /\ [][(call = NoCall /\ call' # NoCall /\ strategy[call'.obj].kind = "tuple") =>
          (Empty(call'.fn_in, DOMAIN call'.fn_in) /\ Empty(call'.fn_out, DOMAIN call'.fn_out))]_vars

C26_Witness ==
  /\ InTupleCall
  /\ call.pc = "returned"
  /\ Len(call.indices) = MaxTotal
  /\ call.tuples_allocated = 1
  /\ hist[call.obj] # <<>>

(***************************************************************************)
(* C27.  Within a call, every invocation of the body, boxed or compiled,   *)
(* is passed the execution context the caller passed to the call.          *)
(***************************************************************************)
C27_SameContext ==
  call.pc # "none" =>
    /\ Len(call.contexts) = Len(call.processed)
    /\ \A j \in DOMAIN call.contexts : call.contexts[j] = call.execution_context

C27_Witness ==
  /\ Returned
  /\ Len(call.contexts) = MaxTotal
  /\ \A j \in DOMAIN call.contexts : call.contexts[j] = call.execution_context

\* a compiled call is in progress
InLLVMCall == call.pc # "none" /\ strategy[call.obj].kind = "llvm"

\* round k of the generated loop, k = 0 .. count - 1, processes indices[k], and
\* both strategies invoke the body for the positions of indices in sequence
\* order, each time with the caller's context
IterationOrder ==
  /\ InLLVMCall /\ call.pc \in {"llvm_call", "llvm_store"} =>
       /\ call.iteration \in 0 .. Len(call.indices) - 1
       /\ call.index_to_process = call.indices[call.iteration + 1]
  /\ InLLVMCall /\ call.pc \in {"llvm_loop", "llvm_load", "llvm_call"} =>
       Len(call.processed) = call.iteration
  /\ InLLVMCall /\ call.pc = "llvm_store" => Len(call.processed) = call.iteration + 1
  /\ call.pc \notin {"none", "crashed"} =>
       /\ call.processed = SubSeq(call.indices, 1, Len(call.processed))
       /\ call.contexts = [j \in 1 .. Len(call.processed) |-> call.execution_context]
  /\ Returned => call.processed = call.indices

\* element `index` of every output buffer holds what the body gives for the
\* inputs at `index`, the value every occurrence of the index writes
LastOccurrenceWins(index) ==
  \A k \in 1 .. output_amount(fn) :
    OutputElement(mem, call.obj, k, index) = ExpectedAt(mem, index)[k]

(***************************************************************************)
(* C29.  The compiled loop processes the positions in the order of the     *)
(* boxed strategy: round k processes indices[k]; so both strategies invoke *)
(* the body with the same sequence of indices and contexts, and when an    *)
(* index occurs several times in indices, a call of either strategy leaves *)
(* at that position of every output buffer the value written for the last  *)
(* occurrence.                                                             *)
(***************************************************************************)
C29_SameOrderLastWins ==
  /\ IterationOrder
  /\ Returned =>
       \A i \in Indices : Count(call.indices, i) >= 2 => LastOccurrenceWins(i)

\* the same for calls none of whose offsets needs more than UintBits bits
SameOrderLastWinsNoWrap ==
  /\ IterationOrder
  /\ (Returned /\ NoWrap(call.indices)) =>
       \A i \in Indices : Count(call.indices, i) >= 2 => LastOccurrenceWins(i)

\* no index occurs twice in the sequence
DistinctIndices(indices) ==
  \A p, q \in DOMAIN indices : indices[p] = indices[q] => p = q

\* the call in progress passes an input buffer as an output buffer
InPlace == call.pc # "none" /\ \E k \in DOMAIN call.output_buffers : call.output_buffers[k].kind = "in"

\* the memory the call in progress leaves when it is made, from the memory it
\* began with, with the output buffers of its own
SeparateRun ==
  LET c == [call EXCEPT !.output_buffers = output_buffers_of(call.obj),
                        !.typed_output_buffers = output_buffers_of(call.obj)]
  IN  IF strategy[call.obj].kind = "tuple" THEN TupleRun(c, call.indices, call.before)
      ELSE LLVMRun(c, call.indices, call.before)

====
